---- MODULE Spec2Model ----
(***************************************************************************)
(* Model of tools/expected_upstream/ojluni_refresh_files.py: the tool that *)
(* reads the EXPECTED_UPSTREAM manifest, finds the entries whose           *)
(* destination file differs from its upstream blob, groups them by         *)
(* upstream ref and creates an import commit and a merge commit per group. *)
(*                                                                         *)
(* A tree is a function from paths to blob contents; content 0 means the   *)
(* path is absent from the tree.  A commit is a record [tree, parents];    *)
(* the object database is the sequence `commits`, a commit's id being its  *)
(* position in it.                                                         *)
(***************************************************************************)
EXTENDS Integers, Sequences, FiniteSets, TLC

VARIABLES
  commits,                  \* object database: sequence of [tree, parents]
  head,                     \* repo.active_branch.commit (the branch tip)
  index,                    \* repo.index, the live working-tree index
  worktree,                 \* files on disk in the working tree
  tracking,                 \* repo.active_branch.tracking_branch()
  manifest,                 \* entries of the EXPECTED_UPSTREAM file
  pc,                       \* position of create_commits
  runs,                     \* number of invocations of the tool so far
  warned,                   \* the tracking-branch warning was printed
  err_kind,                 \* exception that ended the run, "" if none
  err_entry,                \* entries printed to stderr as "ERROR: reading entry"
  outdated_entries,         \* local of create_commits
  entry_sets_to_be_merged,  \* local of create_commits: groups not yet merged
  entry_set,                \* argument of the last merge_files_and_create_commit
  first_commit,             \* local of merge_files_and_create_commit
  prev_head,                \* local of merge_files_and_create_commit
  second_commit,            \* local of merge_files_and_create_commit
  index_before,             \* live index when the last merge started
  merged,                   \* log of this run: <<[entry_set, prev_head, first_commit, second_commit]>>
  start_head,               \* branch tip when this run started
  start_ncommits,           \* Len(commits) when this run started
  prev_status               \* how the previous run ended: "none", "done", "aborted"

vars == <<commits, head, index, worktree, tracking, manifest, pc, runs, warned,
          err_kind, err_entry, outdated_entries, entry_sets_to_be_merged,
          entry_set, first_commit, prev_head, second_commit, index_before,
          merged, start_head, start_ncommits, prev_status>>

(***************************************************************************)
(* Bounds                                                                  *)
(***************************************************************************)
MaxManifest == 3
MaxRuns == 2

(***************************************************************************)
(* The repository and the manifest the tool is run on                      *)
(***************************************************************************)
AllPaths == {"a", "b", "x", "y", "z"}

EmptyTree == [p \in AllPaths |-> 0]

\* Position of the commit with an empty tree in the object database.
EMPTY_COMMIT_SHA == 1

\* The refs a manifest may name: R1 and R2 resolve, R9 does not.
Refs == {"R1", "R2", "R9"}

SrcPaths == {"a", "b"}

DstPaths == {"x", "y"}

\* The entries a manifest may hold.  R2 has no file b and R9 does not resolve,
\* so one entry of each kind of failure is enough.
ExpectedUpstreamEntry ==
  { e \in [git_ref : Refs, src_path : SrcPaths, dst_path : DstPaths] :
      /\ e.git_ref = "R9" => (e.src_path = "a" /\ e.dst_path = "x")
      /\ (e.git_ref = "R2" /\ e.src_path = "b") => e.dst_path = "x" }

\* Upstream commit of R1 holds a and b; the one of R2 holds a only.
UpstreamTreeR1 == [EmptyTree EXCEPT !["a"] = 1, !["b"] = 2]

UpstreamTreeR2 == [EmptyTree EXCEPT !["a"] = 2]

\* Trees the branch tip may start with; z is a file no entry names.
HeadTrees == { [EmptyTree EXCEPT !["x"] = cx, !["y"] = cy, !["z"] = 3] :
                 cx \in {0, 1, 2}, cy \in {0, 1} }

TrackingBranches == {"aosp/expected_upstream", "aosp/other", "None"}

RECURSIVE SeqsUpTo(_, _)
SeqsUpTo(S, n) ==
  IF n = 0 THEN {<<>>}
  ELSE LET shorter == SeqsUpTo(S, n - 1)
       IN  shorter \cup {Append(s, e) : s \in {t \in shorter : Len(t) = n - 1}, e \in S}

Manifests == SeqsUpTo(ExpectedUpstreamEntry, MaxManifest)

(***************************************************************************)
(* Repository collaborator                                                 *)
(***************************************************************************)
\* repo.commit(ref): the id of the commit, 0 where GitPython raises.
repo_commit(ref) ==
  CASE ref = "R1" -> 2
    [] ref = "R2" -> 3
    [] OTHER -> 0

\* commit.tree
tree_of(c) == commits[c].tree

\* True iff the path exists in the tree.
has_file_in_tree(path, tree) == tree[path] # 0


(***************************************************************************)
(* validate_and_remove_updated_entries                                     *)
(***************************************************************************)
\* Variant: every entry that resolves is reported as outdated.
needs_update_always(e, head_tree, source_blob) == TRUE

\* Variant: a file missing from HEAD is not reported as outdated.
needs_update_ignoring_missing(e, head_tree, source_blob) ==
  /\ has_file_in_tree(e.dst_path, head_tree)
  /\ source_blob # head_tree[e.dst_path]

\* The two tests of the loop body: missing in HEAD, or content differs.
needs_update(e, head_tree, source_blob) ==
  IF ~has_file_in_tree(e.dst_path, head_tree)
  THEN TRUE
  ELSE source_blob # head_tree[e.dst_path]

\* The loop over the entries: error is the position of the entry whose
\* lookup raised, 0 if none did.
RECURSIVE validate_loop(_, _, _, _)
validate_loop(entries, i, result, head_tree) ==
  IF i > Len(entries) THEN [result |-> result, error |-> 0]
  ELSE LET e == entries[i]
           commit == repo_commit(e.git_ref)
       IN  IF commit = 0 THEN [result |-> result, error |-> i]
           \* tree.join raises for a path the tree does not hold
           ELSE IF tree_of(commit)[e.src_path] = 0
                THEN [result |-> result, error |-> i]
           ELSE LET source_blob == tree_of(commit)[e.src_path]
                IN  IF needs_update(e, head_tree, source_blob)
                    THEN validate_loop(entries, i + 1, Append(result, e), head_tree)
                    ELSE validate_loop(entries, i + 1, result, head_tree)

validate_and_remove_updated_entries(entries) ==
  validate_loop(entries, 1, <<>>, tree_of(head))

(***************************************************************************)
(* partition_entries_by_ref                                                *)
(***************************************************************************)
\* result_map is an insertion-ordered dict: a sequence of [key, value].
dict_get(result_map, key) ==
  IF \E i \in 1..Len(result_map) : result_map[i].key = key
  THEN CHOOSE i \in 1..Len(result_map) : result_map[i].key = key
  ELSE 0

\* Variant: the list of a ref is reset every time the ref is seen.
dict_add_resetting(result_map, e) ==
  LET i == dict_get(result_map, e.git_ref)
  IN  IF i = 0
      THEN Append(result_map, [key |-> e.git_ref, value |-> <<e>>])
      ELSE [result_map EXCEPT ![i].value = <<e>>]

\* The loop body: create the list of a ref not seen yet, then append.
dict_add(result_map, e) ==
  LET i == dict_get(result_map, e.git_ref)
  IN  IF i = 0
      THEN Append(result_map, [key |-> e.git_ref, value |-> <<e>>])
      ELSE [result_map EXCEPT ![i].value = Append(@, e)]

RECURSIVE partition_loop(_, _, _)
partition_loop(entries, i, result_map) ==
  IF i > Len(entries) THEN result_map
  ELSE partition_loop(entries, i + 1, dict_add(result_map, entries[i]))

partition_entries_by_ref(entries) ==
  LET result_map == partition_loop(entries, 1, <<>>)
  IN  [i \in 1..Len(result_map) |-> result_map[i].value]

(***************************************************************************)
(* merge_files_and_create_commit                                           *)
(***************************************************************************)
\* Variant: the file is staged under its upstream path.
add_entry_at_src_path(st, entry, upstream_tree) ==
  LET src_blob == upstream_tree[entry.src_path]
      wt == [st.worktree EXCEPT ![entry.dst_path] = src_blob]
  IN  [worktree |-> wt,
       first_index |-> [st.first_index EXCEPT ![entry.src_path] = src_blob]]

\* One round of the loop: write the upstream blob to dst_path in the working
\* tree, then add that file to first_index.
add_entry(st, entry, upstream_tree) ==
  LET src_blob == upstream_tree[entry.src_path]
      wt == [st.worktree EXCEPT ![entry.dst_path] = src_blob]
  IN  [worktree |-> wt,
       first_index |-> [st.first_index EXCEPT ![entry.dst_path] = wt[entry.dst_path]]]

RECURSIVE add_entries(_, _, _, _)
add_entries(st, entries, i, upstream_tree) ==
  IF i > Len(entries) THEN st
  ELSE add_entries(add_entry(st, entries[i], upstream_tree), entries, i + 1, upstream_tree)

\* Variant: a path already in the branch tip keeps the tip's content.
second_index_keeping_head(prev_tree, first_tree) ==
  [p \in AllPaths |-> IF prev_tree[p] # 0 THEN prev_tree[p] ELSE first_tree[p]]

\* IndexFile.from_tree(prev_head), then every blob of first_commit added.
second_index_tree(prev_tree, first_tree) ==
  [p \in AllPaths |-> IF first_tree[p] # 0 THEN first_tree[p] ELSE prev_tree[p]]

\* Variant: the parents of the merge commit swapped.
merge_parents_swapped(prev, first) == <<first, prev>>

\* parent_commits of second_commit.
merge_parents(prev, first) == <<prev, first>>

\* Variant: the live index is left as it was.
index_reset_skipped(idx, head_tree, paths) == idx

\* repo.index.reset(paths=dst_paths): each path takes HEAD's entry, or is
\* removed from the index when HEAD has none.
index_reset(idx, head_tree, paths) ==
  [p \in AllPaths |-> IF p \in paths THEN head_tree[p] ELSE idx[p]]

dst_paths_of(entries) == {entries[i].dst_path : i \in 1..Len(entries)}

\* Variant: the loop over the groups stops after its first round.
next_entry_sets_stopping(entry_sets) == <<>>

\* The for loop of create_commits moving to the next group.
next_entry_sets(entry_sets) == Tail(entry_sets)

merge_files_and_create_commit(es) ==
  LET ref == es[1].git_ref
      upstream_commit == repo_commit(ref)
      st0 == [worktree |-> worktree, first_index |-> tree_of(EMPTY_COMMIT_SHA)]
      st == add_entries(st0, es, 1, tree_of(upstream_commit))
      first == Len(commits) + 1
      second == Len(commits) + 2
      second_tree == second_index_tree(tree_of(head), st.first_index)
  IN  /\ entry_set' = es
      /\ worktree' = st.worktree
      /\ first_commit' = first
      /\ prev_head' = head
      /\ second_commit' = second
      /\ commits' = Append(Append(commits,
                        [tree |-> st.first_index, parents |-> <<upstream_commit>>]),
                        [tree |-> second_tree, parents |-> merge_parents(head, first)])
      /\ head' = second
      /\ index_before' = index
      /\ index' = index_reset(index, second_tree, dst_paths_of(es))
      /\ merged' = Append(merged, [entry_set |-> es, prev_head |-> head,
                                   first_commit |-> first, second_commit |-> second])

(***************************************************************************)
(* create_commits                                                          *)
(***************************************************************************)
Init ==
  /\ \E t \in HeadTrees :
        /\ commits = << [tree |-> EmptyTree, parents |-> <<>>],
                        [tree |-> UpstreamTreeR1, parents |-> <<>>],
                        [tree |-> UpstreamTreeR2, parents |-> <<>>],
                        [tree |-> t, parents |-> <<>>] >>
        \* the user has one staged change, to z, which no entry names
        /\ index = [t EXCEPT !["z"] = 4]
        /\ worktree = [t EXCEPT !["z"] = 4]
  /\ head = 4
  /\ tracking \in TrackingBranches
  /\ manifest \in Manifests
  /\ pc = "start"
  /\ runs = 1
  /\ warned = FALSE
  /\ err_kind = ""
  /\ err_entry = <<>>
  /\ outdated_entries = <<>>
  /\ entry_sets_to_be_merged = <<>>
  /\ entry_set = <<>>
  /\ first_commit = 0
  /\ prev_head = 0
  /\ second_commit = 0
  /\ index_before = index
  /\ merged = <<>>
  /\ start_head = 4
  /\ start_ncommits = 4
  /\ prev_status = "none"

\* tracking_branch() is None on a branch that tracks nothing, and reading
\* .name of None raises AttributeError.
CheckTrackingBranch ==
  /\ pc = "start"
  /\ IF tracking = "None"
     THEN /\ pc' = "aborted"
          /\ err_kind' = "AttributeError"
          /\ warned' = warned
     ELSE /\ pc' = "read"
          /\ err_kind' = err_kind
          /\ warned' = (tracking # "aosp/expected_upstream")
  /\ UNCHANGED <<commits, head, index, worktree, tracking, manifest, runs,
                 err_entry, outdated_entries, entry_sets_to_be_merged,
                 entry_set, first_commit, prev_head, second_commit,
                 index_before, merged, start_head, start_ncommits, prev_status>>

\* Read the manifest, filter it, return if nothing is outdated, partition.
ReadAndValidate ==
  /\ pc = "read"
  /\ LET r == validate_and_remove_updated_entries(manifest)
     IN  IF r.error # 0
         THEN /\ pc' = "aborted"
              /\ err_kind' = "LookupError"
              /\ err_entry' = <<manifest[r.error]>>
              /\ UNCHANGED <<outdated_entries, entry_sets_to_be_merged>>
         ELSE /\ outdated_entries' = r.result
              /\ UNCHANGED <<err_kind, err_entry>>
              /\ IF r.result = <<>>
                 THEN /\ pc' = "done"
                      /\ UNCHANGED entry_sets_to_be_merged
                 ELSE /\ pc' = "merge"
                      /\ entry_sets_to_be_merged' = partition_entries_by_ref(r.result)
  /\ UNCHANGED <<commits, head, index, worktree, tracking, manifest, runs,
                 warned, entry_set, first_commit, prev_head, second_commit,
                 index_before, merged, start_head, start_ncommits, prev_status>>

\* One round of the loop over the groups.
MergeNextEntrySet ==
  /\ pc = "merge"
  /\ merge_files_and_create_commit(Head(entry_sets_to_be_merged))
  /\ entry_sets_to_be_merged' = next_entry_sets(entry_sets_to_be_merged)
  /\ pc' = IF entry_sets_to_be_merged' = <<>> THEN "done" ELSE "merge"
  /\ UNCHANGED <<tracking, manifest, runs, warned, err_kind, err_entry,
                 outdated_entries, start_head, start_ncommits, prev_status>>

\* main() invoked again on the same repository with the same manifest.
RunAgain ==
  /\ pc \in {"done", "aborted"}
  /\ runs < MaxRuns
  /\ runs' = runs + 1
  /\ pc' = "start"
  /\ prev_status' = pc
  /\ warned' = FALSE
  /\ err_kind' = ""
  /\ err_entry' = <<>>
  /\ outdated_entries' = <<>>
  /\ entry_sets_to_be_merged' = <<>>
  /\ entry_set' = <<>>
  /\ first_commit' = 0
  /\ prev_head' = 0
  /\ second_commit' = 0
  /\ index_before' = index
  /\ merged' = <<>>
  /\ start_head' = head
  /\ start_ncommits' = Len(commits)
  /\ UNCHANGED <<commits, head, index, worktree, tracking, manifest>>

Next ==
  \/ CheckTrackingBranch
  \/ ReadAndValidate
  \/ MergeNextEntrySet
  \/ RunAgain

Spec == Init /\ [][Next]_vars


(***************************************************************************)
(* partition_entries_by_ref applied to every list of entries               *)
(***************************************************************************)
InitPartition ==
  /\ commits = << [tree |-> EmptyTree, parents |-> <<>>],
                  [tree |-> UpstreamTreeR1, parents |-> <<>>],
                  [tree |-> UpstreamTreeR2, parents |-> <<>>],
                  [tree |-> EmptyTree, parents |-> <<>>] >>
  /\ index = EmptyTree
  /\ worktree = EmptyTree
  /\ head = 4
  /\ tracking = "aosp/expected_upstream"
  /\ manifest \in Manifests
  /\ pc = "partition"
  /\ runs = 1
  /\ warned = FALSE
  /\ err_kind = ""
  /\ err_entry = <<>>
  /\ outdated_entries = manifest
  /\ entry_sets_to_be_merged = <<>>
  /\ entry_set = <<>>
  /\ first_commit = 0
  /\ prev_head = 0
  /\ second_commit = 0
  /\ index_before = EmptyTree
  /\ merged = <<>>
  /\ start_head = 4
  /\ start_ncommits = 4
  /\ prev_status = "none"

ApplyPartition ==
  /\ pc = "partition"
  /\ entry_sets_to_be_merged' = partition_entries_by_ref(outdated_entries)
  /\ pc' = "partitioned"
  /\ UNCHANGED <<commits, head, index, worktree, tracking, manifest, runs,
                 warned, err_kind, err_entry, outdated_entries, entry_set,
                 first_commit, prev_head, second_commit, index_before, merged,
                 start_head, start_ncommits, prev_status>>

NextPartition == ApplyPartition

SpecPartition == InitPartition /\ [][NextPartition]_vars

(***************************************************************************)
(* Properties                                                              *)
(***************************************************************************)
\* The upstream blob an entry names, 0 if its ref or its path does not resolve.
BlobOf(e) ==
  IF repo_commit(e.git_ref) = 0 THEN 0
  ELSE tree_of(repo_commit(e.git_ref))[e.src_path]

Resolves(e) == BlobOf(e) # 0

AllResolve(entries) == \A i \in 1..Len(entries) : Resolves(entries[i])

\* The last entry of the list that names the path.
LastEntryFor(p, entries) ==
  entries[CHOOSE i \in 1..Len(entries) :
            /\ entries[i].dst_path = p
            /\ \A j \in (i + 1)..Len(entries) : entries[j].dst_path # p]

\* Two entries name one destination path with different upstream content.
HasConflict(entries) ==
  \E i, j \in 1..Len(entries) :
    /\ entries[i].dst_path = entries[j].dst_path
    /\ BlobOf(entries[i]) # BlobOf(entries[j])

AfterMerge == entry_set # <<>>

\* Paths other than the group's destination paths are as in the previous tip.
OtherPathsUnchanged ==
  \A p \in AllPaths \ dst_paths_of(entry_set) :
    tree_of(head)[p] = tree_of(prev_head)[p]

\* C1 as stated: after merge_files_and_create_commit ran for a group, the
\* tip's tree is the previous tip's tree with the destination path of every
\* entry of the group holding that entry's upstream blob, and every other
\* path as before.
C1_AsStated ==
  AfterMerge =>
    /\ \A i \in 1..Len(entry_set) :
         tree_of(head)[entry_set[i].dst_path] = BlobOf(entry_set[i])
    /\ OtherPathsUnchanged

\* C1 amended: after merge_files_and_create_commit ran for a group, the tip's
\* tree is the previous tip's tree with each destination path of the group
\* holding the upstream blob of the last entry of the group that names it,
\* and every other path as before.
C1_TipTree ==
  AfterMerge =>
    /\ \A p \in dst_paths_of(entry_set) :
         tree_of(head)[p] = BlobOf(LastEntryFor(p, entry_set))
    /\ OtherPathsUnchanged

\* A group with two entries naming one path has been merged over a tip that
\* held that path and the unrelated file z.
C1_Witness ==
  /\ AfterMerge
  /\ Len(entry_set) >= 2
  /\ entry_set[1].dst_path = entry_set[2].dst_path
  /\ tree_of(prev_head)[entry_set[1].dst_path] # 0
  /\ tree_of(prev_head)[entry_set[1].dst_path] # tree_of(head)[entry_set[1].dst_path]
  /\ tree_of(head)["z"] = 3

\* C2: the import commit's only parent is the commit the group's ref resolves
\* to; the merge commit's parents are the previous tip, then the import
\* commit; the previous tip is the tip the run started with for the first
\* group and the merge commit of the preceding group for a later one.
C2_Parents ==
  AfterMerge =>
    /\ commits[first_commit].parents = <<repo_commit(entry_set[1].git_ref)>>
    /\ commits[second_commit].parents = <<prev_head, first_commit>>
    /\ head = second_commit
    /\ prev_head = IF Len(merged) = 1 THEN start_head
                   ELSE merged[Len(merged) - 1].second_commit

\* The second group of a run has been merged.
C2_Witness ==
  /\ AfterMerge
  /\ Len(merged) = 2
  /\ prev_head = merged[1].second_commit
  /\ prev_head # start_head

\* The run after a run that completed has passed its filter.
SecondRunFiltered ==
  /\ runs >= 2
  /\ prev_status = "done"
  /\ pc \in {"merge", "done"}

CreatedNothing ==
  /\ outdated_entries = <<>>
  /\ pc = "done"
  /\ Len(commits) = start_ncommits
  /\ head = start_head

\* C3 as stated: a run that follows a completed run with the same manifest
\* finds no outdated entry and creates no commit, whatever the manifest.
C3_AsStated == SecondRunFiltered => CreatedNothing

\* C3 amended: a run that follows a completed run with the same manifest
\* finds no outdated entry and creates no commit, provided no two entries of
\* the manifest name one destination path with different upstream content.
C3_Idempotent ==
  (SecondRunFiltered /\ ~HasConflict(manifest)) => CreatedNothing

\* The first run created commits for two groups, two entries of the manifest
\* name one path with equal content, and the second run has ended.
C3_Witness ==
  /\ runs = 2
  /\ prev_status = "done"
  /\ pc = "done"
  /\ Len(commits) = 8
  /\ ~HasConflict(manifest)
  /\ \E i, j \in 1..Len(manifest) :
       i # j /\ manifest[i].dst_path = manifest[j].dst_path

\* What the filter is to keep: the destination is missing from the tip or its
\* bytes differ from the upstream blob.
MissingOrDiffers(e) ==
  \/ tree_of(head)[e.dst_path] = 0
  \/ tree_of(head)[e.dst_path] # BlobOf(e)

\* C4: when every entry resolves, the filter returns exactly the entries whose
\* destination is missing from the tip or differs from the upstream blob, in
\* input order, and leaves the tip, the index, the working tree and the
\* commits as they were.
C4_Filter ==
  [][(pc = "read" /\ AllResolve(manifest)) =>
       /\ outdated_entries' = SelectSeq(manifest, MissingOrDiffers)
       /\ pc' \in {"merge", "done"}
       /\ UNCHANGED <<commits, head, index, worktree>>]_vars

\* The filter kept an entry whose destination is missing and one whose
\* destination differs, and dropped an entry that is up to date.
C4_Witness ==
  /\ pc = "merge"
  /\ merged = <<>>
  /\ AllResolve(manifest)
  /\ Len(manifest) = 3
  /\ Len(outdated_entries) = 2
  /\ \E i \in 1..2 : tree_of(head)[outdated_entries[i].dst_path] = 0
  /\ \E i \in 1..2 : tree_of(head)[outdated_entries[i].dst_path] # 0

EntriesOfRef(entries, r) ==
  LET has_ref(e) == e.git_ref = r
  IN  SelectSeq(entries, has_ref)

FirstSeen(entries, r) ==
  CHOOSE i \in 1..Len(entries) :
    /\ entries[i].git_ref = r
    /\ \A j \in 1..(i - 1) : entries[j].git_ref # r

RefsOf(entries) == {entries[i].git_ref : i \in 1..Len(entries)}

\* The groups are those of the input: one group per ref of the input, in
\* first-seen order of the refs, each holding the entries of its ref in input
\* order.
IsPartitionOf(groups, entries) ==
  /\ Len(groups) = Cardinality(RefsOf(entries))
  /\ \A g \in 1..Len(groups) :
       /\ Len(groups[g]) > 0
       /\ \A i \in 1..Len(groups[g]) : groups[g][i].git_ref = groups[g][1].git_ref
       /\ groups[g] = EntriesOfRef(entries, groups[g][1].git_ref)
  /\ \A g, h \in 1..Len(groups) :
       g < h => /\ groups[g][1].git_ref # groups[h][1].git_ref
                /\ FirstSeen(entries, groups[g][1].git_ref)
                     < FirstSeen(entries, groups[h][1].git_ref)

RECURSIVE Flatten(_)
Flatten(groups) ==
  IF groups = <<>> THEN <<>> ELSE Head(groups) \o Flatten(Tail(groups))

\* C5: the groups partition_entries_by_ref returns are non-empty, one per
\* ref, in first-seen order of the refs, each with the entries of its ref in
\* input order, and together hold as many entries as the input; the empty
\* input gives no group.
C5_Partition ==
  pc = "partitioned" =>
    /\ IsPartitionOf(entry_sets_to_be_merged, outdated_entries)
    /\ Len(Flatten(entry_sets_to_be_merged)) = Len(outdated_entries)
    /\ (outdated_entries = <<>> => entry_sets_to_be_merged = <<>>)

\* A list whose refs interleave has been split in two groups.
C5_Witness ==
  /\ pc = "partitioned"
  /\ Len(outdated_entries) = 3
  /\ outdated_entries[1].git_ref = outdated_entries[3].git_ref
  /\ outdated_entries[1].git_ref # outdated_entries[2].git_ref
  /\ Len(entry_sets_to_be_merged) = 2
  /\ Len(entry_sets_to_be_merged[1]) = 2

FirstBadEntry ==
  manifest[CHOOSE i \in 1..Len(manifest) :
             /\ ~Resolves(manifest[i])
             /\ \A j \in 1..(i - 1) : Resolves(manifest[j])]

\* C6 as stated: a run over a manifest with an entry that does not resolve
\* ends aborted, with that entry reported, no commit created and the tip
\* where it was.
C6_AsStated ==
  (~AllResolve(manifest) /\ pc \in {"merge", "done", "aborted"}) =>
    /\ pc = "aborted"
    /\ err_entry = <<FirstBadEntry>>
    /\ Len(commits) = start_ncommits
    /\ head = start_head

\* C7 as stated: with any tracking target other than aosp/expected_upstream,
\* none configured included, the check prints the warning and the run goes
\* on to read the manifest.
C7_AsStated ==
  (tracking # "aosp/expected_upstream" /\ pc # "start") =>
    /\ warned
    /\ err_kind # "AttributeError"

\* The refs of the entries in first-seen order.
RECURSIVE RefOrder(_, _)
RefOrder(entries, seen) ==
  IF entries = <<>> THEN <<>>
  ELSE IF Head(entries).git_ref \in seen
       THEN RefOrder(Tail(entries), seen)
       ELSE <<Head(entries).git_ref>>
              \o RefOrder(Tail(entries), seen \cup {Head(entries).git_ref})

\* A run that ended without error created one import commit followed by one
\* merge commit per ref of the outdated entries, in first-seen order of the
\* refs, each merge commit built on the one before it, and the tip is the
\* last merge commit.
TwoCommitsPerRef ==
  LET order == RefOrder(outdated_entries, {})
      k == Len(order)
  IN  /\ Len(commits) = start_ncommits + 2 * k
      /\ Len(merged) = k
      /\ \A j \in 1..k :
           /\ merged[j].entry_set = EntriesOfRef(outdated_entries, order[j])
           /\ merged[j].first_commit = start_ncommits + 2 * j - 1
           /\ merged[j].second_commit = start_ncommits + 2 * j
           /\ commits[merged[j].first_commit].parents = <<repo_commit(order[j])>>
           /\ commits[merged[j].second_commit].parents
                = <<merged[j].prev_head, merged[j].first_commit>>
           /\ merged[j].prev_head
                = IF j = 1 THEN start_head ELSE merged[j - 1].second_commit
      /\ head = IF k = 0 THEN start_head ELSE merged[k].second_commit

ProcessingOrder ==
  Flatten([j \in 1..Len(merged) |-> merged[j].entry_set])

\* C8 as stated: a run that ended without error created two commits per ref
\* as above, and the destination path of every outdated entry holds that
\* entry's upstream blob in the tip.
C8_AsStated ==
  pc = "done" =>
    /\ TwoCommitsPerRef
    /\ \A i \in 1..Len(outdated_entries) :
         tree_of(head)[outdated_entries[i].dst_path] = BlobOf(outdated_entries[i])

\* C8 amended: a run that ended without error created two commits per ref as
\* above, and each destination path of the outdated entries holds, in the
\* tip, the upstream blob of the last outdated entry naming it in processing
\* order (groups in first-seen order of their refs, entries in input order).
C8_Run ==
  pc = "done" =>
    /\ TwoCommitsPerRef
    /\ \A p \in dst_paths_of(outdated_entries) :
         tree_of(head)[p] = BlobOf(LastEntryFor(p, ProcessingOrder))

\* A run over outdated entries of two interleaved refs has ended with four
\* new commits.
C8_Witness ==
  /\ pc = "done"
  /\ Len(outdated_entries) = 3
  /\ outdated_entries[1].git_ref = outdated_entries[3].git_ref
  /\ outdated_entries[1].git_ref # outdated_entries[2].git_ref
  /\ Len(commits) = start_ncommits + 4
  /\ head = start_ncommits + 4

BlobPaths(tree) == {p \in AllPaths : tree[p] # 0}

\* C10 as stated: the blob paths of the import commit's tree are the group's
\* destination paths, and the destination path of every entry of the group
\* holds that entry's upstream blob.
C10_AsStated ==
  AfterMerge =>
    /\ BlobPaths(tree_of(first_commit)) = dst_paths_of(entry_set)
    /\ \A i \in 1..Len(entry_set) :
         tree_of(first_commit)[entry_set[i].dst_path] = BlobOf(entry_set[i])

\* C10 amended: the blob paths of the import commit's tree are the group's
\* destination paths, each holding the upstream blob of the last entry of the
\* group that names it; no other path of the upstream commit or of the tip is
\* in it.
C10_ImportTree ==
  AfterMerge =>
    /\ BlobPaths(tree_of(first_commit)) = dst_paths_of(entry_set)
    /\ \A p \in dst_paths_of(entry_set) :
         tree_of(first_commit)[p] = BlobOf(LastEntryFor(p, entry_set))

\* An import commit was built for a group of two paths while its upstream
\* parent and the tip hold paths that are not in it.
C10_Witness ==
  /\ AfterMerge
  /\ dst_paths_of(entry_set) = {"x", "y"}
  /\ BlobPaths(tree_of(commits[first_commit].parents[1])) = {"a", "b"}
  /\ tree_of(prev_head)["z"] = 3
  /\ tree_of(first_commit)["z"] = 0

====
